---- MODULE Spec2Model ----
(***************************************************************************)
(* A model of the MISMO XML anonymizer: the engine of src/anonymizer.py    *)
(* (seven passes over a parsed element tree) and the HTTP handlers of      *)
(* src/main.py (text, file upload and folder batch).                       *)
(*                                                                         *)
(* A string is a sequence of one-character strings, so that formatting     *)
(* (str of an int, strftime, f-string concatenation) is computed and not   *)
(* assumed.  An element is a record [tag, parent, attrib, w, fake]:        *)
(*   attrib  the element's attribute dictionary (name -> string);          *)
(*   parent  the pre-order index of the parent element (0 for the root);   *)
(*   w       history: for every attribute, the passes that assigned it in  *)
(*           the current run, in order;                                    *)
(*   fake    history: the locals fake_first, fake_middle, fake_last of the *)
(*           last _anonymize_names iteration on that element.              *)
(* random.randint(a, b) and random.choice(pool) are sampled at both ends   *)
(* of their range.                                                         *)
(***************************************************************************)
EXTENDS Integers, Sequences, FiniteSets, TLC

VARIABLES
    input,      \* the tree as parsed, before any pass ran
    tree,       \* the tree the passes mutate in place (pre-order sequence)
    pc,         \* the next pass of anonymize_xml, or "done"
    anonymized, \* TRUE once a full run has completed
    clock,      \* the date datetime.now() returns (days since 1970-01-01)
    req,        \* HTTP layer: the request being handled
    resp,       \* HTTP layer: the response sent, or NoResponse
    hpc,        \* HTTP layer: position of the handler
    xml_files,  \* folder handler: the glob result
    idx,        \* folder handler: loop position in xml_files
    processed_files, \* folder handler: entries appended on success
    failed_files,    \* folder handler: entries appended on failure
    fs          \* the file system: [files, dirs], each a set of paths

engineVars == <<input, tree, pc, anonymized, clock>>
apiVars == <<req, resp, hpc, xml_files, idx, processed_files, failed_files, fs>>
vars == <<input, tree, pc, anonymized, clock, req, resp, hpc, xml_files, idx,
          processed_files, failed_files, fs>>

(***************************************************************************)
(* Bounds                                                                  *)
(***************************************************************************)
MaxNodes == 2
MaxFiles == 2

(***************************************************************************)
(* Strings                                                                 *)
(***************************************************************************)
DigitChar == <<"0", "1", "2", "3", "4", "5", "6", "7", "8", "9">>

Digits == {DigitChar[i] : i \in 1..10}

RECURSIVE IntToStr(_)
\* str(n) of a non-negative int, as the f-strings format it
IntToStr(n) ==
    IF n < 10 THEN <<DigitChar[n + 1]>>
    ELSE IntToStr(n \div 10) \o <<DigitChar[(n % 10) + 1]>>

RECURSIVE ZeroPad(_, _)
\* strftime's zero-padded fields (%Y to 4, %m and %d to 2)
ZeroPad(s, width) == IF Len(s) >= width THEN s ELSE ZeroPad(<<"0">> \o s, width)

DigitValue(c) == CHOOSE d \in 0..9 : DigitChar[d + 1] = c

RECURSIVE StrToInt(_)
StrToInt(s) ==
    IF Len(s) = 0 THEN 0
    ELSE 10 * StrToInt(SubSeq(s, 1, Len(s) - 1)) + DigitValue(s[Len(s)])

AllDigits(s) == \A i \in 1..Len(s) : s[i] \in Digits

(***************************************************************************)
(* random                                                                  *)
(***************************************************************************)
\* random.randint(a, b): any integer of a..b; sampled at its two ends
RandInt(a, b) == {a, b}

\* random.choice(pool) is pool[i] for a random index i: RandInt(1, Len(pool))

(***************************************************************************)
(* datetime: day ordinals and the proleptic Gregorian calendar             *)
(***************************************************************************)
DaysFromCivil(y0, m, d) ==
    LET y == IF m <= 2 THEN y0 - 1 ELSE y0
        era == y \div 400
        yoe == y - era * 400
        mp == IF m > 2 THEN m - 3 ELSE m + 9
        doy == (153 * mp + 2) \div 5 + d - 1
        doe == yoe * 365 + yoe \div 4 - yoe \div 100 + doy
    IN era * 146097 + doe - 719468

CivilFromDays(z0) ==
    LET z == z0 + 719468
        era == z \div 146097
        doe == z - era * 146097
        yoe == (doe - doe \div 1460 + doe \div 36524 - doe \div 146096) \div 365
        doy == doe - (365 * yoe + yoe \div 4 - yoe \div 100)
        mp == (5 * doy + 2) \div 153
        d == doy - (153 * mp + 2) \div 5 + 1
        m == IF mp < 10 THEN mp + 3 ELSE mp - 9
        y == yoe + era * 400 + (IF m <= 2 THEN 1 ELSE 0)
    IN [year |-> y, month |-> m, day |-> d]

\* fake_date.strftime('%Y-%m-%d')
Strftime(days) ==
    LET c == CivilFromDays(days)
    IN ZeroPad(IntToStr(c.year), 4) \o <<"-">> \o ZeroPad(IntToStr(c.month), 2)
       \o <<"-">> \o ZeroPad(IntToStr(c.day), 2)

\* a faulty variant: the years are not converted to days
FakeBirthDateYearsAsDays(now, years_ago, extra) == Strftime(now - (years_ago + extra))

\* datetime.now() - timedelta(days=years_ago * 365 + extra), formatted
FakeBirthDate(now, years_ago, extra) == Strftime(now - (years_ago * 365 + extra))

\* the dates datetime.now() is sampled at: a leap day and an ordinary day
ClockSamples == {DaysFromCivil(2024, 2, 29), DaysFromCivil(2026, 11, 5)}

(***************************************************************************)
(* MISMOAnonymizer.__init__: the pools                                     *)
(***************************************************************************)
first_names == <<
    <<"J","o","h","n">>, <<"J","a","n","e">>, <<"M","i","c","h","a","e","l">>,
    <<"S","a","r","a","h">>, <<"R","o","b","e","r","t">>, <<"E","m","i","l","y">>,
    <<"D","a","v","i","d">>, <<"L","i","s","a">> >>

last_names == <<
    <<"S","m","i","t","h">>, <<"J","o","h","n","s","o","n">>,
    <<"W","i","l","l","i","a","m","s">>, <<"B","r","o","w","n">>,
    <<"J","o","n","e","s">>, <<"G","a","r","c","i","a">>, <<"M","i","l","l","e","r">> >>

middle_initials == << <<"A">>, <<"B">>, <<"C">>, <<"D">>, <<"E">> >>

creditor_names == <<
    <<"A","B","C"," ","B","A","N","K">>,
    <<"X","Y","Z"," ","C","R","E","D","I","T"," ","U","N","I","O","N">>,
    <<"G","E","N","E","R","I","C"," ","M","O","R","T","G","A","G","E"," ","C","O">>,
    <<"S","A","M","P","L","E"," ","F","I","N","A","N","C","I","A","L">>,
    <<"A","N","O","N","Y","M","O","U","S"," ","L","E","N","D","E","R">>,
    <<"T","E","S","T"," ","B","A","N","K">>,
    <<"D","E","M","O"," ","C","R","E","D","I","T"," ","C","O","R","P">>,
    <<"P","L","A","C","E","H","O","L","D","E","R"," ","F","I","N","A","N","C","E">> >>

MainStreet == <<" ","M","a","i","n"," ","S","t","r","e","e","t">>
Anytown == <<"A","n","y","t","o","w","n">>
StateCA == <<"C","A">>
Postal90001 == <<"9","0","0","0","1">>

Phone == <<"P","h","o","n","e">>
Email == <<"E","m","a","i","l">>
Fax == <<"F","a","x">>

(***************************************************************************)
(* Elements and attribute dictionaries                                     *)
(***************************************************************************)
Has(e, a) == a \in DOMAIN e.attrib

\* d[k] = v on a Python dict: replaces the value, or adds the key
DictSet(d, k, v) == [a \in DOMAIN d \cup {k} |-> IF a = k THEN v ELSE d[a]]

\* elem.attrib[a] = v executed by pass p
Assign(e, a, v, p) ==
    [e EXCEPT !.attrib = DictSet(@, a, v),
              !.w = DictSet(@, a, IF a \in DOMAIN @ THEN Append(@[a], p) ELSE <<p>>)]

\* if a in elem.attrib: elem.attrib[a] = v
AssignIfPresent(e, a, v, p) == IF Has(e, a) THEN Assign(e, a, v, p) ELSE e

NoFake == [first |-> <<>>, middle |-> <<>>, last |-> <<>>, drawn |-> FALSE]

Element(tag, parent, attrib) ==
    [tag |-> tag, parent |-> parent, attrib |-> attrib,
     w |-> [a \in DOMAIN attrib |-> <<>>], fake |-> NoFake]

\* a fresh run over the same tree: history cleared
Fresh(t) == [i \in DOMAIN t |-> Element(t[i].tag, t[i].parent, t[i].attrib)]

(***************************************************************************)
(* The seven passes, per element.  Each takes the element and the random   *)
(* draws its iteration makes; a draw the iteration does not make (its      *)
(* guard is false) is fixed to NotDrawn so that it yields one outcome.     *)
(***************************************************************************)
NotDrawn == {0}

\* a faulty variant: _MiddleName is assigned without the presence test
AnonymizeNamesElemAddsMiddle(e, d) ==
    IF Has(e, "_FirstName") \/ Has(e, "_LastName")
    THEN LET fake_first == first_names[d.first]
             fake_last == last_names[d.last]
             fake_middle == middle_initials[d.middle]
             e0 == [e EXCEPT !.fake = [first |-> fake_first, middle |-> fake_middle,
                                       last |-> fake_last, drawn |-> TRUE]]
             e1 == AssignIfPresent(e0, "_FirstName", fake_first, "names")
             e2 == Assign(e1, "_MiddleName", fake_middle, "names")
             e3 == AssignIfPresent(e2, "_LastName", fake_last, "names")
         IN AssignIfPresent(e3, "_UnparsedName",
                            fake_first \o <<" ">> \o fake_middle \o <<" ">> \o fake_last,
                            "names")
    ELSE e

\* a faulty variant: _UnparsedName is built without the middle initial
AnonymizeNamesElemNoMiddle(e, d) ==
    IF Has(e, "_FirstName") \/ Has(e, "_LastName")
    THEN LET fake_first == first_names[d.first]
             fake_last == last_names[d.last]
             fake_middle == middle_initials[d.middle]
             e0 == [e EXCEPT !.fake = [first |-> fake_first, middle |-> fake_middle,
                                       last |-> fake_last, drawn |-> TRUE]]
             e1 == AssignIfPresent(e0, "_FirstName", fake_first, "names")
             e2 == AssignIfPresent(e1, "_MiddleName", fake_middle, "names")
             e3 == AssignIfPresent(e2, "_LastName", fake_last, "names")
         IN AssignIfPresent(e3, "_UnparsedName", fake_first \o <<" ">> \o fake_last, "names")
    ELSE e

\* a faulty variant: the names pass also takes _Name for a person's name
AnonymizeNamesElemAlsoName(e, d) ==
    IF Has(e, "_FirstName") \/ Has(e, "_LastName")
    THEN LET fake_first == first_names[d.first]
             fake_last == last_names[d.last]
             fake_middle == middle_initials[d.middle]
             e0 == [e EXCEPT !.fake = [first |-> fake_first, middle |-> fake_middle,
                                       last |-> fake_last, drawn |-> TRUE]]
             e1 == AssignIfPresent(e0, "_FirstName", fake_first, "names")
             e2 == AssignIfPresent(e1, "_MiddleName", fake_middle, "names")
             e3 == AssignIfPresent(e2, "_LastName", fake_last, "names")
             e4 == AssignIfPresent(e3, "_UnparsedName",
                                   fake_first \o <<" ">> \o fake_middle \o <<" ">> \o fake_last,
                                   "names")
         IN AssignIfPresent(e4, "_Name", fake_last, "names")
    ELSE e

\* _anonymize_names: the body of the loop
AnonymizeNamesElem(e, d) ==
    IF Has(e, "_FirstName") \/ Has(e, "_LastName")
    THEN LET fake_first == first_names[d.first]
             fake_last == last_names[d.last]
             fake_middle == middle_initials[d.middle]
             e0 == [e EXCEPT !.fake = [first |-> fake_first, middle |-> fake_middle,
                                       last |-> fake_last, drawn |-> TRUE]]
             e1 == AssignIfPresent(e0, "_FirstName", fake_first, "names")
             e2 == AssignIfPresent(e1, "_MiddleName", fake_middle, "names")
             e3 == AssignIfPresent(e2, "_LastName", fake_last, "names")
         IN AssignIfPresent(e3, "_UnparsedName",
                            fake_first \o <<" ">> \o fake_middle \o <<" ">> \o fake_last,
                            "names")
    ELSE e

NamesDraws(e) ==
    IF Has(e, "_FirstName") \/ Has(e, "_LastName")
    THEN [first : RandInt(1, Len(first_names)), last : RandInt(1, Len(last_names)),
          middle : RandInt(1, Len(middle_initials))]
    ELSE [first : NotDrawn, last : NotDrawn, middle : NotDrawn]

\* a faulty variant: the first block starts at 0
SsnBlocksFromZero == [a : RandInt(0, 999), b : RandInt(10, 99), c : RandInt(1000, 9999)]

\* the three blocks of the fake SSN
SsnBlocks == [a : RandInt(100, 999), b : RandInt(10, 99), c : RandInt(1000, 9999)]

\* _anonymize_ssn: the body of the loop
AnonymizeSsnElem(e, d) ==
    AssignIfPresent(e, "_SSN", IntToStr(d.a) \o IntToStr(d.b) \o IntToStr(d.c), "ssn")

SsnDraws(e) ==
    IF Has(e, "_SSN") THEN SsnBlocks ELSE [a : NotDrawn, b : NotDrawn, c : NotDrawn]

\* the draws of one _BirthDate
YearsAgo == RandInt(30, 50)
ExtraDays == RandInt(0, 365)

\* _anonymize_dob: the body of the loop
AnonymizeDobElem(e, d, now) ==
    LET e1 == AssignIfPresent(e, "_BirthDate", FakeBirthDate(now, d.years, d.extra), "dob")
    IN AssignIfPresent(e1, "_AgeYears", IntToStr(d.age), "dob")

DobDraws(e) ==
    [years : IF Has(e, "_BirthDate") THEN YearsAgo ELSE NotDrawn,
     extra : IF Has(e, "_BirthDate") THEN ExtraDays ELSE NotDrawn,
     age : IF Has(e, "_AgeYears") THEN RandInt(30, 50) ELSE NotDrawn]

\* _anonymize_addresses: the body of the outer loop, over address_attributes in order
AnonymizeAddressesElem(e, d) ==
    LET e1 == AssignIfPresent(e, "_StreetAddress", IntToStr(d.street) \o MainStreet, "addresses")
        e2 == AssignIfPresent(e1, "_City", Anytown, "addresses")
        e3 == AssignIfPresent(e2, "_State", StateCA, "addresses")
    IN AssignIfPresent(e3, "_PostalCode", Postal90001, "addresses")

AddressesDraws(e) ==
    [street : IF Has(e, "_StreetAddress") THEN RandInt(100, 9999) ELSE NotDrawn]

\* a faulty variant: the first test leaves out the tag
AnonymizeCreditorsElemAnyTag(e, d) ==
    LET e1 == IF Has(e, "_Name")
              THEN Assign(e, "_Name", creditor_names[1], "creditors")
              ELSE e
    IN IF e1.tag = "REQUESTING_PARTY" /\ Has(e1, "_Name")
       THEN Assign(e1, "_Name", creditor_names[1], "creditors")
       ELSE e1

\* _anonymize_creditors: the body of the loop
AnonymizeCreditorsElem(e, d) ==
    LET e1 == IF e.tag = "_CREDITOR" /\ Has(e, "_Name")
              THEN Assign(e, "_Name", creditor_names[d.creditor], "creditors")
              ELSE e
    IN IF e1.tag = "REQUESTING_PARTY" /\ Has(e1, "_Name")
       THEN Assign(e1, "_Name", creditor_names[d.party], "creditors")
       ELSE e1

CreditorsDraws(e) ==
    [creditor : IF e.tag = "_CREDITOR" /\ Has(e, "_Name")
                THEN RandInt(1, Len(creditor_names)) ELSE NotDrawn,
     party : IF e.tag = "REQUESTING_PARTY" /\ Has(e, "_Name")
             THEN RandInt(1, Len(creditor_names)) ELSE NotDrawn]

FakePhone(n) == <<"5", "5", "5">> \o IntToStr(n)

\* the seven digits after 555
PhoneDigits == RandInt(1000000, 9999999)

\* a faulty variant: two ifs, the second one listing Phone as well
AnonymizeContactInfoElemTwoIfs(e, d) ==
    IF Has(e, "_Value") /\ Has(e, "_Type")
    THEN LET e1 == IF e.attrib["_Type"] = Phone
                   THEN Assign(e, "_Value", FakePhone(d.number), "contact_info")
                   ELSE e
         IN IF e1.attrib["_Type"] \in {Phone, Email, Fax}
            THEN Assign(e1, "_Value", FakePhone(d.number), "contact_info")
            ELSE e1
    ELSE e

\* _anonymize_contact_info: the body of the loop
AnonymizeContactInfoElem(e, d) ==
    IF Has(e, "_Value") /\ Has(e, "_Type")
    THEN IF e.attrib["_Type"] = Phone
         THEN Assign(e, "_Value", FakePhone(d.number), "contact_info")
         ELSE IF e.attrib["_Type"] \in {Email, Fax}
              THEN Assign(e, "_Value", FakePhone(d.number), "contact_info")
              ELSE e
    ELSE e

ContactInfoDraws(e) ==
    [number : IF Has(e, "_Value") /\ Has(e, "_Type") /\ e.attrib["_Type"] \in {Phone, Email, Fax}
              THEN PhoneDigits ELSE NotDrawn]

\* the nine digits after ACC
AccountDigits == RandInt(100000000, 999999999)

\* _anonymize_account_identifiers: the body of the loop
AnonymizeAccountIdentifiersElem(e, d) ==
    LET e1 == AssignIfPresent(e, "_AccountIdentifier",
                              <<"A", "C", "C">> \o IntToStr(d.acc), "account_identifiers")
        e2 == AssignIfPresent(e1, "InternalAccountIdentifier",
                              <<"I", "N", "T">> \o IntToStr(d.int), "account_identifiers")
        e3 == AssignIfPresent(e2, "LenderCaseIdentifier", IntToStr(d.lender),
                              "account_identifiers")
    IN AssignIfPresent(e3, "_RequestedByName", <<"u", "s", "e", "r">> \o IntToStr(d.user),
                       "account_identifiers")

AccountIdentifiersDraws(e) ==
    [acc : IF Has(e, "_AccountIdentifier") THEN AccountDigits ELSE NotDrawn,
     int : IF Has(e, "InternalAccountIdentifier") THEN RandInt(1000, 9999) ELSE NotDrawn,
     lender : IF Has(e, "LenderCaseIdentifier") THEN RandInt(1000000, 9999999) ELSE NotDrawn,
     user : IF Has(e, "_RequestedByName") THEN RandInt(1, 999) ELSE NotDrawn]

\* the passes in the order anonymize_xml calls them
PassOrder == <<"names", "ssn", "dob", "addresses", "creditors", "contact_info",
               "account_identifiers">>

\* every element one iteration of pass p can leave in place of e
ElemOutcomes(p, e, now) ==
    CASE p = "names" -> {AnonymizeNamesElem(e, d) : d \in NamesDraws(e)}
      [] p = "ssn" -> {AnonymizeSsnElem(e, d) : d \in SsnDraws(e)}
      [] p = "dob" -> {AnonymizeDobElem(e, d, now) : d \in DobDraws(e)}
      [] p = "addresses" -> {AnonymizeAddressesElem(e, d) : d \in AddressesDraws(e)}
      [] p = "creditors" -> {AnonymizeCreditorsElem(e, d) : d \in CreditorsDraws(e)}
      [] p = "contact_info" -> {AnonymizeContactInfoElem(e, d) : d \in ContactInfoDraws(e)}
      [] p = "account_identifiers" ->
            {AnonymizeAccountIdentifiersElem(e, d) : d \in AccountIdentifiersDraws(e)}

RECURSIVE IterOutcomes(_, _, _, _)
\* for elem in root.iter(): the trees pass p can leave after visiting t[1..k]
IterOutcomes(p, t, k, now) ==
    IF k = 0 THEN {t}
    ELSE {[s EXCEPT ![k] = e] : s \in IterOutcomes(p, t, k - 1, now),
                                 e \in ElemOutcomes(p, t[k], now)}

\* one whole pass over the tree
PassOutcomes(p, t, now) == IterOutcomes(p, t, Len(t), now)

(***************************************************************************)
(* Input documents: the trees of 1..MaxNodes elements drawn from the       *)
(* element templates below, in every nesting a pre-order allows.  The      *)
(* passes treat the elements independently of their position, so the       *)
(* templates of a tree are taken in catalogue order.                       *)
(***************************************************************************)
Templates == <<
    [tag |-> "BORROWER",
     attrib |-> [a \in {"_FirstName", "_MiddleName", "_LastName", "_UnparsedName", "BorrowerID"} |->
        CASE a = "_FirstName" -> <<"A","n","n">>
          [] a = "_MiddleName" -> <<"Q">>
          [] a = "_LastName" -> <<"L","e","e">>
          [] a = "_UnparsedName" -> <<"A","n","n"," ","Q"," ","L","e","e">>
          [] a = "BorrowerID" -> <<"B","1">>]],
    [tag |-> "_ALIAS",
     attrib |-> [a \in {"_FirstName", "_UnparsedName"} |->
        CASE a = "_FirstName" -> <<"A","n","n">>
          [] a = "_UnparsedName" -> <<"A","n","n"," ","L","e","e">>]],
    [tag |-> "EMPLOYER",
     attrib |-> [a \in {"_Name", "_MiddleName", "_UnparsedName", "_Value"} |->
        CASE a = "_Name" -> <<"A","c","m","e">>
          [] a = "_MiddleName" -> <<"Q">>
          [] a = "_UnparsedName" -> <<"A","n","n"," ","L","e","e">>
          [] a = "_Value" -> <<"4","2">>]],
    [tag |-> "_CREDITOR",
     attrib |-> [a \in {"_Name", "_AccountIdentifier"} |->
        CASE a = "_Name" -> <<"O","l","d"," ","B","a","n","k">>
          [] a = "_AccountIdentifier" -> <<"9","9","1">>]],
    [tag |-> "REQUESTING_PARTY",
     attrib |-> [a \in {"_Name", "InternalAccountIdentifier"} |->
        CASE a = "_Name" -> <<"O","l","d"," ","B","a","n","k">>
          [] a = "InternalAccountIdentifier" -> <<"7","7">>]],
    [tag |-> "CONTACT_POINT",
     attrib |-> [a \in {"_Type", "_Value"} |->
        CASE a = "_Type" -> Phone
          [] a = "_Value" -> <<"7","0","2","5","5","5","0","1","0","0">>]],
    [tag |-> "CONTACT_POINT",
     attrib |-> [a \in {"_Type", "_Value"} |->
        CASE a = "_Type" -> Email
          [] a = "_Value" -> <<"a","@","b",".","c">>]],
    [tag |-> "CONTACT_POINT",
     attrib |-> [a \in {"_Type", "_Value"} |->
        CASE a = "_Type" -> Fax
          [] a = "_Value" -> <<"7","0","2","5","5","5","0","1","0","1">>]],
    [tag |-> "CONTACT_POINT",
     attrib |-> [a \in {"_Type", "_Value"} |->
        CASE a = "_Type" -> <<"W","o","r","k">>
          [] a = "_Value" -> <<"d","e","s","k">>]],
    [tag |-> "_RESIDENCE",
     attrib |-> [a \in {"_StreetAddress", "_City", "_State", "_PostalCode", "_AgeYears"} |->
        CASE a = "_StreetAddress" -> <<"1"," ","E","l","m">>
          [] a = "_AgeYears" -> <<"4","5">>
          [] a = "_City" -> <<"R","e","n","o">>
          [] a = "_State" -> <<"N","V">>
          [] a = "_PostalCode" -> <<"8","9","5","0","1">>]],
    [tag |-> "BORROWER",
     attrib |-> [a \in {"_SSN"} |-> <<"1","2","3","4","5","6","7","8","9">>]],
    [tag |-> "BORROWER",
     attrib |-> [a \in {"_BirthDate"} |-> <<"1","9","8","0","-","0","1","-","0","1">>]],
    [tag |-> "CREDIT_REQUEST",
     attrib |-> [a \in {"LenderCaseIdentifier", "_RequestedByName"} |->
        CASE a = "LenderCaseIdentifier" -> <<"L","1">>
          [] a = "_RequestedByName" -> <<"b","o","b">>]] >>

RECURSIVE Ancestors(_, _)
\* i and the elements above it, under the parent sequence ps
Ancestors(ps, i) == IF i = 0 THEN {} ELSE {i} \cup Ancestors(ps, ps[i])

RECURSIVE Nestings(_)
\* the parent sequences of n elements in pre-order under one root
Nestings(n) ==
    IF n = 1 THEN {<<0>>}
    ELSE UNION {{Append(ps, q) : q \in Ancestors(ps, n - 1)} : ps \in Nestings(n - 1)}

InputTrees ==
    UNION {{[i \in 1..n |-> Element(Templates[ts[i]].tag, ps[i], Templates[ts[i]].attrib)] :
                ts \in {f \in [1..n -> 1..Len(Templates)] :
                            \A i \in 1..(n - 1) : f[i] <= f[i + 1]},
                ps \in Nestings(n)} : n \in 1..MaxNodes}

(***************************************************************************)
(* anonymize_xml: parse, the seven passes in order, serialize; any         *)
(* exception raised on the way is re-raised as ValueError.                 *)
(* In the HTTP layer a document is described by where anonymize_xml        *)
(* raises on it, and messages are sequences of text chunks.                *)
(***************************************************************************)
ParserMessage == <<"Document is empty">>
PassMessage == <<"'NoneType' object has no attribute 'iter'">>

Docs == {[raises |-> "none", msg |-> <<>>],
         [raises |-> "parse", msg |-> ParserMessage],     \* etree.fromstring raises
         [raises |-> "pass", msg |-> PassMessage]}        \* an _anonymize_* pass raises

Returned(v) == [raised |-> FALSE, value |-> v]
Raised(type, str) == [raised |-> TRUE, type |-> type, str |-> str]

\* anonymize_xml as its callers see it
AnonymizeXml(doc) ==
    IF doc.raises = "none" THEN Returned("anonymized_xml")
    ELSE Raised("ValueError", <<"Error parsing or anonymizing XML: ">> \o doc.msg)

NoRequest == [kind |-> "none"]
NoResponse == [status |-> 0]

ApiIdle ==
    /\ req = NoRequest
    /\ resp = NoResponse
    /\ hpc = "idle"
    /\ xml_files = <<>>
    /\ idx = 0
    /\ processed_files = <<>>
    /\ failed_files = <<>>
    /\ fs = [files |-> {}, dirs |-> {}]

Init ==
    /\ input \in InputTrees
    /\ tree = input
    /\ pc = "names"
    /\ anonymized = FALSE
    /\ clock \in IF \E i \in DOMAIN input : Has(input[i], "_BirthDate")
                 THEN ClockSamples ELSE {DaysFromCivil(2026, 11, 5)}
    /\ ApiIdle

\* self._anonymize_names(root)
AnonymizeNames ==
    /\ pc = "names"
    /\ tree' \in PassOutcomes("names", tree, clock)
    /\ pc' = "ssn"
    /\ UNCHANGED <<input, anonymized, clock>>
    /\ UNCHANGED apiVars

\* self._anonymize_ssn(root)
AnonymizeSsn ==
    /\ pc = "ssn"
    /\ tree' \in PassOutcomes("ssn", tree, clock)
    /\ pc' = "dob"
    /\ UNCHANGED <<input, anonymized, clock>>
    /\ UNCHANGED apiVars

\* self._anonymize_dob(root)
AnonymizeDob ==
    /\ pc = "dob"
    /\ tree' \in PassOutcomes("dob", tree, clock)
    /\ pc' = "addresses"
    /\ UNCHANGED <<input, anonymized, clock>>
    /\ UNCHANGED apiVars

\* self._anonymize_addresses(root)
AnonymizeAddresses ==
    /\ pc = "addresses"
    /\ tree' \in PassOutcomes("addresses", tree, clock)
    /\ pc' = "creditors"
    /\ UNCHANGED <<input, anonymized, clock>>
    /\ UNCHANGED apiVars

\* self._anonymize_creditors(root)
AnonymizeCreditors ==
    /\ pc = "creditors"
    /\ tree' \in PassOutcomes("creditors", tree, clock)
    /\ pc' = "contact_info"
    /\ UNCHANGED <<input, anonymized, clock>>
    /\ UNCHANGED apiVars

\* self._anonymize_contact_info(root)
AnonymizeContactInfo ==
    /\ pc = "contact_info"
    /\ tree' \in PassOutcomes("contact_info", tree, clock)
    /\ pc' = "account_identifiers"
    /\ UNCHANGED <<input, anonymized, clock>>
    /\ UNCHANGED apiVars

\* self._anonymize_account_identifiers(root)
AnonymizeAccountIdentifiers ==
    /\ pc = "account_identifiers"
    /\ tree' \in PassOutcomes("account_identifiers", tree, clock)
    /\ pc' = "done"
    /\ UNCHANGED <<input, anonymized, clock>>
    /\ UNCHANGED apiVars

\* the anonymized tree is anonymized again
AnonymizeAgain ==
    /\ pc = "done"
    /\ tree' = Fresh(tree)
    /\ pc' = "names"
    /\ anonymized' = TRUE
    /\ UNCHANGED <<input, clock>>
    /\ UNCHANGED apiVars

Next ==
    \/ AnonymizeNames
    \/ AnonymizeSsn
    \/ AnonymizeDob
    \/ AnonymizeAddresses
    \/ AnonymizeCreditors
    \/ AnonymizeContactInfo
    \/ AnonymizeAccountIdentifiers

\* one run of anonymize_xml over a parsed tree
Spec == Init /\ [][Next]_vars

NextAgain ==
    \/ Next
    \/ AnonymizeAgain

\* consecutive runs over the same tree
SpecAgain == Init /\ [][NextAgain]_vars

(***************************************************************************)
(* The rule triggers: attribute a of element e is one a pass rewrites      *)
(***************************************************************************)
NameAttributes == {"_FirstName", "_MiddleName", "_LastName", "_UnparsedName"}
AddressAttributes == {"_StreetAddress", "_City", "_State", "_PostalCode"}
IdentifierAttributes == {"_AccountIdentifier", "InternalAccountIdentifier",
                         "LenderCaseIdentifier", "_RequestedByName"}

Recognized(e, a) ==
    /\ Has(e, a)
    /\ \/ a \in NameAttributes /\ (Has(e, "_FirstName") \/ Has(e, "_LastName"))
       \/ a \in {"_SSN", "_BirthDate", "_AgeYears"}
       \/ a \in AddressAttributes
       \/ a = "_Name" /\ e.tag \in {"_CREDITOR", "REQUESTING_PARTY"}
       \/ a = "_Value" /\ Has(e, "_Type") /\ e.attrib["_Type"] \in {Phone, Email, Fax}
       \/ a \in IdentifierAttributes

\* the passes before position p of anonymize_xml have run
Passed(p) ==
    \/ pc = "done"
    \/ \E i, j \in DOMAIN PassOrder : PassOrder[i] = p /\ PassOrder[j] = pc /\ i < j

(***************************************************************************)
(* C1: at every state of every run, between passes as at the end, the tree *)
(* has the input's node count, pre-order tag sequence and nesting, and      *)
(* every element has the input element's attribute names.                   *)
(***************************************************************************)
ShapePreserved ==
    /\ Len(tree) = Len(input)
    /\ \A i \in DOMAIN tree :
        /\ i \in DOMAIN input
        /\ tree[i].tag = input[i].tag
        /\ tree[i].parent = input[i].parent
        /\ DOMAIN tree[i].attrib = DOMAIN input[i].attrib

\* a second run has completed on a two-element tree and changed a value
ShapePreservedWitness ==
    /\ anonymized
    /\ pc = "done"
    /\ Len(tree) = 2
    /\ \E i \in DOMAIN tree : ~Has(tree[i], "_MiddleName") /\ Has(tree[i], "_FirstName")
    /\ \E i \in DOMAIN tree : \E a \in DOMAIN tree[i].attrib :
            tree[i].attrib[a] # input[i].attrib[a]

(***************************************************************************)
(* C2: an attribute that no rule's trigger covers on its element keeps its *)
(* input value in every state of a run.                                    *)
(***************************************************************************)
UnrecognizedUnchanged ==
    \A i \in DOMAIN input : \A a \in DOMAIN input[i].attrib :
        ~Recognized(input[i], a) =>
            /\ i \in DOMAIN tree
            /\ Has(tree[i], a)
            /\ tree[i].attrib[a] = input[i].attrib[a]

\* a run has finished on a tree holding an element with an untriggered _Name, _Value,
\* _MiddleName and _UnparsedName, beside an element that was rewritten
UnrecognizedUnchangedWitness ==
    /\ pc = "done"
    /\ \E i \in DOMAIN tree :
        /\ tree[i].tag = "EMPLOYER"
        /\ {"_Name", "_Value", "_MiddleName", "_UnparsedName"} \subseteq DOMAIN tree[i].attrib
    /\ \E i \in DOMAIN tree :
        /\ Has(tree[i], "_Type")
        /\ tree[i].attrib["_Value"] # input[i].attrib["_Value"]

(***************************************************************************)
(* C3                                                                      *)
(***************************************************************************)
Joined(first, middle, last) == first \o <<" ">> \o middle \o <<" ">> \o last

\* C3 as amended: once the names pass has run, on every element with _FirstName and
\* _UnparsedName, _UnparsedName is "first middle last" of that element's own _FirstName,
\* its _MiddleName (or the middle initial drawn for it), and its _LastName (or the last
\* name drawn for it when it has no _LastName).
NameLinkage ==
    Passed("names") =>
        \A i \in DOMAIN tree :
            LET e == tree[i] IN
            (Has(e, "_FirstName") /\ Has(e, "_UnparsedName")) =>
                e.attrib["_UnparsedName"] =
                    Joined(e.attrib["_FirstName"],
                           IF Has(e, "_MiddleName") THEN e.attrib["_MiddleName"]
                                                    ELSE e.fake.middle,
                           IF Has(e, "_LastName") THEN e.attrib["_LastName"]
                                                  ELSE e.fake.last)

\* C3 as stated: the last part of _UnparsedName is the element's own _LastName
NameLinkageOwnLastName ==
    Passed("names") =>
        \A i \in DOMAIN tree :
            LET e == tree[i] IN
            (Has(e, "_FirstName") /\ Has(e, "_UnparsedName")) =>
                /\ Has(e, "_LastName")
                /\ e.attrib["_UnparsedName"] =
                    Joined(e.attrib["_FirstName"],
                           IF Has(e, "_MiddleName") THEN e.attrib["_MiddleName"]
                                                    ELSE e.fake.middle,
                           e.attrib["_LastName"])

\* two elements with _FirstName and _UnparsedName were given different names, one of
\* them without _MiddleName and _LastName
NameLinkageWitness ==
    /\ pc = "done"
    /\ \E i, j \in DOMAIN tree :
        /\ i # j
        /\ {"_FirstName", "_UnparsedName"} \subseteq DOMAIN tree[i].attrib
        /\ {"_FirstName", "_UnparsedName"} \subseteq DOMAIN tree[j].attrib
        /\ ~Has(tree[j], "_LastName")
        /\ ~Has(tree[j], "_MiddleName")
        /\ tree[i].attrib["_FirstName"] # tree[j].attrib["_FirstName"]
        /\ tree[i].attrib["_UnparsedName"] # tree[j].attrib["_UnparsedName"]

(***************************************************************************)
(* C4: after a run every _SSN is 9 digits, every _AccountIdentifier is ACC *)
(* and 9 digits, and every _Value beside a _Type of Phone, Email or Fax is *)
(* 555 and 7 digits.                                                       *)
(***************************************************************************)
PrefixedDigits(s, prefix, n) ==
    /\ Len(s) = Len(prefix) + n
    /\ SubSeq(s, 1, Len(prefix)) = prefix
    /\ AllDigits(SubSeq(s, Len(prefix) + 1, Len(s)))

\* C4: the formats of _SSN, _AccountIdentifier and typed _Value at the end of a run
FormatConformance ==
    pc = "done" =>
        \A i \in DOMAIN tree :
            LET e == tree[i] IN
            /\ Has(e, "_SSN") => PrefixedDigits(e.attrib["_SSN"], <<>>, 9)
            /\ Has(e, "_AccountIdentifier") =>
                    PrefixedDigits(e.attrib["_AccountIdentifier"], <<"A", "C", "C">>, 9)
            /\ (Has(e, "_Value") /\ Has(e, "_Type") /\ e.attrib["_Type"] \in {Phone, Email, Fax}) =>
                    PrefixedDigits(e.attrib["_Value"], <<"5", "5", "5">>, 7)

\* a run has finished on a tree with an _SSN and an Email _Value
FormatConformanceWitness ==
    /\ pc = "done"
    /\ \E i \in DOMAIN tree : Has(tree[i], "_SSN") /\ tree[i].attrib["_SSN"] # input[i].attrib["_SSN"]
    /\ \E i \in DOMAIN tree : Has(tree[i], "_Type") /\ tree[i].attrib["_Type"] = Email

(***************************************************************************)
(* C5                                                                      *)
(***************************************************************************)
\* the day ordinal of a YYYY-MM-DD string
ParseDate(s) ==
    DaysFromCivil(StrToInt(SubSeq(s, 1, 4)), StrToInt(SubSeq(s, 6, 7)), StrToInt(SubSeq(s, 9, 10)))

IsIsoDate(s) ==
    /\ Len(s) = 10
    /\ s[5] = "-" /\ s[8] = "-"
    /\ AllDigits(SubSeq(s, 1, 4)) /\ AllDigits(SubSeq(s, 6, 7)) /\ AllDigits(SubSeq(s, 9, 10))
    /\ StrToInt(SubSeq(s, 6, 7)) \in 1..12
    /\ StrToInt(SubSeq(s, 9, 10)) \in 1..31

\* date b is at least n calendar years before date t
YearsBefore(b, t, n) ==
    LET cb == CivilFromDays(b)
        ct == CivilFromDays(t)
    IN \/ cb.year < ct.year - n
       \/ cb.year = ct.year - n /\ cb.month < ct.month
       \/ cb.year = ct.year - n /\ cb.month = ct.month /\ cb.day <= ct.day

WrittenOnce ==
    /\ \A i \in DOMAIN tree : \A a \in DOMAIN tree[i].w : Len(tree[i].w[a]) <= 1
    /\ pc = "done" =>
        \A i \in DOMAIN tree : \A a \in DOMAIN tree[i].attrib :
            /\ a \in DOMAIN tree[i].w
            /\ Len(tree[i].w[a]) = IF Recognized(tree[i], a) THEN 1 ELSE 0
    /\ \A i, j \in DOMAIN tree : \A a \in DOMAIN tree[i].w \cap DOMAIN tree[j].w :
            (tree[i].w[a] # <<>> /\ tree[j].w[a] # <<>>) => tree[i].w[a][1] = tree[j].w[a][1]

\* a run has finished on a _CREDITOR with _Name beside a Fax contact point
WrittenOnceWitness ==
    /\ pc = "done"
    /\ \E i \in DOMAIN tree : tree[i].tag = "_CREDITOR" /\ tree[i].w["_Name"] = <<"creditors">>
    /\ \E i \in DOMAIN tree :
        /\ Has(tree[i], "_Type") /\ tree[i].attrib["_Type"] = Fax
        /\ tree[i].w["_Value"] = <<"contact_info">>

(***************************************************************************)
(* C9: the passes in any order                                             *)
(***************************************************************************)
RECURSIVE RunOutcomes(_, _, _, _)
\* the trees the first k passes of `order` can leave, started on t
RunOutcomes(order, k, t, now) ==
    IF k = 0 THEN {Fresh(t)}
    ELSE UNION {{Fresh(v) : v \in PassOutcomes(order[k], u, now)} :
                    u \in RunOutcomes(order, k - 1, t, now)}

\* the orders the seven passes can be called in
PassOrders ==
    {[i \in DOMAIN PassOrder |-> PassOrder[f[i]]] :
        f \in {g \in [DOMAIN PassOrder -> DOMAIN PassOrder] :
                    \A i, j \in DOMAIN PassOrder : i # j => g[i] # g[j]}}

\* elements on which several passes meet
OrderTemplates == <<
    [tag |-> "_CREDITOR",
     attrib |-> [a \in {"_Name", "_FirstName", "_Type", "_Value"} |->
        CASE a = "_Name" -> <<"O","l","d"," ","B","a","n","k">>
          [] a = "_FirstName" -> <<"A","n","n">>
          [] a = "_Type" -> Phone
          [] a = "_Value" -> <<"7","0","2">>]],
    [tag |-> "REQUESTING_PARTY",
     attrib |-> [a \in {"_Name", "_UnparsedName", "_RequestedByName", "_City", "_Type", "_Value"} |->
        CASE a = "_Name" -> <<"O","l","d"," ","B","a","n","k">>
          [] a = "_UnparsedName" -> <<"A","n","n"," ","L","e","e">>
          [] a = "_RequestedByName" -> <<"b","o","b">>
          [] a = "_City" -> <<"R","e","n","o">>
          [] a = "_Type" -> <<"W","o","r","k">>
          [] a = "_Value" -> <<"d","e","s","k">>]],
    [tag |-> "BORROWER",
     attrib |-> [a \in {"_LastName", "_AgeYears", "_StreetAddress", "_Type"} |->
        CASE a = "_LastName" -> <<"L","e","e">>
          [] a = "_AgeYears" -> <<"4","5">>
          [] a = "_StreetAddress" -> <<"1"," ","E","l","m">>
          [] a = "_Type" -> Email]],
    [tag |-> "CONTACT_POINT",
     attrib |-> [a \in {"_SSN", "_Type", "_Value"} |->
        CASE a = "_SSN" -> <<"1","2","3","4","5","6","7","8","9">>
          [] a = "_Type" -> Email
          [] a = "_Value" -> <<"a","@","b",".","c">>]],
    [tag |-> "_CREDITOR",
     attrib |-> [a \in {"_BirthDate", "_AccountIdentifier", "_Type", "_Value"} |->
        CASE a = "_BirthDate" -> <<"1","9","8","0","-","0","1","-","0","1">>
          [] a = "_AccountIdentifier" -> <<"9","9","1">>
          [] a = "_Type" -> Fax
          [] a = "_Value" -> <<"7","0","2">>]] >>

OrderInputs ==
    {<<Element(OrderTemplates[k].tag, 0, OrderTemplates[k].attrib)>> : k \in DOMAIN OrderTemplates}

InitOrder ==
    /\ input \in OrderInputs
    /\ tree = input
    /\ pc = "names"
    /\ anonymized = FALSE
    /\ clock = DaysFromCivil(2026, 11, 5)
    /\ ApiIdle

\* one run of anonymize_xml over an element several passes meet on
SpecOrder == InitOrder /\ [][Next]_vars

\* C9: for every order of the seven passes the set of trees a run can end in is the set
\* the order of anonymize_xml gives; and every tree a run of anonymize_xml ends in is in it.
OrderInsensitive ==
    /\ pc = "names" =>
        \A order \in PassOrders :
            RunOutcomes(order, Len(order), input, clock)
                = RunOutcomes(PassOrder, Len(PassOrder), input, clock)
    /\ pc = "done" => Fresh(tree) \in RunOutcomes(PassOrder, Len(PassOrder), input, clock)

\* a run has finished on an element that the names, creditors and contact passes all rewrote
OrderInsensitiveWitness ==
    /\ pc = "done"
    /\ \E i \in DOMAIN tree :
        /\ Has(tree[i], "_Name") /\ tree[i].w["_Name"] = <<"creditors">>
        /\ Has(tree[i], "_FirstName") /\ tree[i].w["_FirstName"] = <<"names">>
        /\ Has(tree[i], "_Type") /\ tree[i].w["_Value"] = <<"contact_info">>

(***************************************************************************)
(* The HTTP layer of src/main.py.  File names are strings of characters, a *)
(* path is a sequence of names, and the file system is [files, dirs].      *)
(***************************************************************************)
EndsWith(s, suffix) ==
    /\ Len(s) >= Len(suffix)
    /\ SubSeq(s, Len(s) - Len(suffix) + 1, Len(s)) = suffix

DotXml == <<".", "x", "m", "l">>

\* os.path.join(a, name), os.path.dirname(p), os.path.basename(p)
PathJoin(dir, name) == Append(dir, name)
Dirname(path) == SubSeq(path, 1, Len(path) - 1)
Basename(path) == path[Len(path)]

\* glob.glob(os.path.join(folder, "*.xml")): the entries of folder itself whose name
\* matches *.xml (a leading dot is not matched by *)
Glob(files, folder) ==
    {f \in files : Dirname(f) = folder /\ EndsWith(Basename(f), DotXml)
                   /\ Basename(f)[1] # "."}

\* an HTTPException, and its str()
HTTPException(status, detail) ==
    [raised |-> TRUE, type |-> "HTTPException", status |-> status, detail |-> detail,
     str |-> IntToStr(status) \o <<": ">> \o detail]

\* type is ValueError or a subclass of it (UnicodeDecodeError)
IsValueError(exc) == exc.type \in {"ValueError", "UnicodeDecodeError"}

HttpError(status, detail, called) ==
    [status |-> status, detail |-> detail, anonymizer_called |-> called]

HttpOk(body, called) ==
    [status |-> 200, body |-> body, anonymizer_called |-> called]

\* the except clauses of anonymize_xml_file and of anonymize_xml_text
XmlHandlerExcept(exc, called) ==
    IF IsValueError(exc) THEN HttpError(400, exc.str, called)
    ELSE HttpError(500, <<"Error processing XML: ">> \o exc.str, called)

\* the except clauses of anonymize_folder
FolderHandlerExcept(exc) ==
    IF exc.type = "HTTPException" THEN HttpError(exc.status, exc.detail, FALSE)
    ELSE HttpError(500, <<"Error processing folder: ">> \o exc.str, FALSE)

\* anonymize_xml_text, the whole handler
TextHandler(doc) ==
    LET r == AnonymizeXml(doc)
    IN IF r.raised THEN XmlHandlerExcept(r, TRUE) ELSE HttpOk(r.value, TRUE)

\* anonymize_xml_file, the whole handler
FileHandler(filename, decodable, doc) ==
    IF ~EndsWith(filename, DotXml)
    THEN XmlHandlerExcept(HTTPException(400, <<"File must be an XML file">>), FALSE)
    ELSE IF ~decodable
         THEN XmlHandlerExcept(Raised("UnicodeDecodeError",
                                      <<"'utf-8' codec can't decode byte">>), FALSE)
         ELSE LET r == AnonymizeXml(doc)
              IN IF r.raised THEN XmlHandlerExcept(r, TRUE) ELSE HttpOk(r.value, TRUE)

ReportXml == <<"r", "e", "p", "o", "r", "t", ".", "x", "m", "l">>
ReportTxt == <<"r", "e", "p", "o", "r", "t", ".", "t", "x", "t">>
UploadNames == {ReportXml, ReportTxt, DotXml}

Data == <<"d", "a", "t", "a">>
Anon == <<"a", "n", "o", "n">>
Missing == <<"m", "i", "s", "s", "i", "n", "g">>
NotesTxt == <<"n", "o", "t", "e", "s", ".", "t", "x", "t">>

\* the names 1.xml, 2.xml, ... of the documents a folder can hold
XmlName(i) == IntToStr(i) \o DotXml

FolderCandidates == {<<Data, XmlName(i)>> : i \in 1..MaxFiles}

\* the folder_path values requested: a folder, a missing path, a file
FolderPaths == {<<Data>>, <<Missing>>, <<Data, NotesTxt>>}

RECURSIVE Orderings(_)
\* the orders glob can list a set of paths in
Orderings(set) ==
    IF set = {} THEN {<<>>}
    ELSE UNION {{<<f>> \o rest : rest \in Orderings(set \ {f})} : f \in set}

InitApi ==
    /\ input = <<>>
    /\ tree = <<>>
    /\ pc = "off"
    /\ anonymized = FALSE
    /\ clock = DaysFromCivil(2026, 11, 5)
    /\ req = NoRequest
    /\ resp = NoResponse
    /\ hpc = "idle"
    /\ xml_files = <<>>
    /\ idx = 0
    /\ processed_files = <<>>
    /\ failed_files = <<>>
    /\ fs \in {[files |-> fl \cup {<<Data, NotesTxt>>}, dirs |-> {<<Data>>}] :
                    fl \in SUBSET FolderCandidates}

\* POST /anonymize/text
AnonymizeXmlText ==
    /\ hpc = "idle"
    /\ \E doc \in Docs :
        /\ req' = [kind |-> "text", doc |-> doc]
        /\ resp' = TextHandler(doc)
    /\ xml_files' = <<>>
    /\ idx' = 0
    /\ processed_files' = <<>>
    /\ failed_files' = <<>>
    /\ UNCHANGED <<hpc, fs>>
    /\ UNCHANGED engineVars

\* POST /anonymize
AnonymizeXmlFile ==
    /\ hpc = "idle"
    /\ \E filename \in UploadNames, decodable \in BOOLEAN, doc \in Docs :
        /\ req' = [kind |-> "file", filename |-> filename, decodable |-> decodable,
                   doc |-> doc]
        /\ resp' = FileHandler(filename, decodable, doc)
    /\ xml_files' = <<>>
    /\ idx' = 0
    /\ processed_files' = <<>>
    /\ failed_files' = <<>>
    /\ UNCHANGED <<hpc, fs>>
    /\ UNCHANGED engineVars

\* POST /anonymize/folder, up to the loop: validation, glob, makedirs
AnonymizeFolderBegin ==
    /\ hpc = "idle"
    /\ \E folder_path \in FolderPaths, makedirs_ok \in BOOLEAN :
        LET anon_folder == PathJoin(folder_path, Anon)
            found == Glob(fs.files, folder_path)
        IN
        /\ req' = [kind |-> "folder", folder_path |-> folder_path]
        /\ processed_files' = <<>>
        /\ failed_files' = <<>>
        /\ idx' = 0
        /\ IF folder_path \notin fs.dirs \cup fs.files
           THEN /\ resp' = FolderHandlerExcept(HTTPException(400, <<"Folder does not exist: ">>))
                /\ UNCHANGED <<hpc, fs>>
                /\ xml_files' = <<>>
           ELSE IF folder_path \notin fs.dirs
           THEN /\ resp' = FolderHandlerExcept(HTTPException(400, <<"Path is not a directory: ">>))
                /\ UNCHANGED <<hpc, fs>>
                /\ xml_files' = <<>>
           ELSE IF found = {}
           THEN /\ resp' = [status |-> 200,
                            body |-> [message |-> <<"No XML files found in folder">>,
                                      processed |-> 0, files |-> <<>>],
                            anonymizer_called |-> FALSE]
                /\ UNCHANGED <<hpc, fs>>
                /\ xml_files' = <<>>
           ELSE IF ~makedirs_ok /\ anon_folder \notin fs.dirs
           THEN /\ resp' = FolderHandlerExcept(Raised("OSError", <<"Permission denied">>))
                /\ UNCHANGED <<hpc, fs>>
                /\ xml_files' = <<>>
           ELSE /\ xml_files' \in Orderings(found)
                /\ fs' = [fs EXCEPT !.dirs = @ \cup {anon_folder}]
                /\ hpc' = "loop"
                /\ resp' = NoResponse
    /\ UNCHANGED engineVars

\* a faulty variant: the entry is appended to processed_files before the output is written
FolderIterationAppendsEarly(xml_file, anon_folder, readable, doc, writable, files, processed, failed) ==
    LET filename == Basename(xml_file)
        r == AnonymizeXml(doc)
        entry == [original |-> filename, anonymized |-> <<Anon, <<"/">>, filename>>]
        Failed(msg) == [processed_files |-> processed,
                        failed_files |-> Append(failed, [file |-> filename, error |-> msg]),
                        files |-> files]
    IN IF Dirname(xml_file) = anon_folder
       THEN [processed_files |-> processed, failed_files |-> failed, files |-> files]
       ELSE IF ~readable THEN Failed(<<"Permission denied">>)
       ELSE IF r.raised THEN Failed(r.str)
       ELSE IF ~writable
            THEN [processed_files |-> Append(processed, entry),
                  failed_files |-> Append(failed, [file |-> filename,
                                                   error |-> <<"No space left on device">>]),
                  files |-> files]
       ELSE [processed_files |-> Append(processed, entry),
             failed_files |-> failed,
             files |-> files \cup {PathJoin(anon_folder, filename)}]

\* the outcome of one iteration of the loop over xml_files, as
\* [processed_files, failed_files, files]
FolderIteration(xml_file, anon_folder, readable, doc, writable, files, processed, failed) ==
    LET filename == Basename(xml_file)
        r == AnonymizeXml(doc)
        Failed(msg) == [processed_files |-> processed,
                        failed_files |-> Append(failed, [file |-> filename, error |-> msg]),
                        files |-> files]
    IN IF Dirname(xml_file) = anon_folder
       THEN [processed_files |-> processed, failed_files |-> failed, files |-> files]
       ELSE IF ~readable THEN Failed(<<"Permission denied">>)
       ELSE IF r.raised THEN Failed(r.str)
       ELSE IF ~writable THEN Failed(<<"No space left on device">>)
       ELSE [processed_files |->
                Append(processed, [original |-> filename,
                                   anonymized |-> <<Anon, <<"/">>, filename>>]),
             failed_files |-> failed,
             files |-> files \cup {PathJoin(anon_folder, filename)}]

\* one iteration of `for xml_file in xml_files`
AnonymizeFolderFile ==
    /\ hpc = "loop"
    /\ idx < Len(xml_files)
    /\ \E readable \in BOOLEAN, doc \in Docs, writable \in BOOLEAN :
        LET out == FolderIteration(xml_files[idx + 1], PathJoin(req.folder_path, Anon),
                                   readable, doc, writable, fs.files,
                                   processed_files, failed_files)
        IN /\ processed_files' = out.processed_files
           /\ failed_files' = out.failed_files
           /\ fs' = [fs EXCEPT !.files = out.files]
    /\ idx' = idx + 1
    /\ UNCHANGED <<req, resp, hpc, xml_files>>
    /\ UNCHANGED engineVars

\* the summary returned after the loop
AnonymizeFolderReturn ==
    /\ hpc = "loop"
    /\ idx = Len(xml_files)
    /\ resp' = [status |-> 200,
                body |-> [processed |-> Len(processed_files),
                          failed |-> Len(failed_files),
                          files |-> processed_files,
                          errors |-> IF failed_files # <<>>
                                     THEN [none |-> FALSE, list |-> failed_files]
                                     ELSE [none |-> TRUE, list |-> <<>>]],
                anonymizer_called |-> TRUE]
    /\ hpc' = "idle"
    /\ UNCHANGED <<req, xml_files, idx, processed_files, failed_files, fs>>
    /\ UNCHANGED engineVars

NextApi ==
    \/ AnonymizeXmlText
    \/ AnonymizeXmlFile
    \/ AnonymizeFolderBegin
    \/ AnonymizeFolderFile
    \/ AnonymizeFolderReturn

\* the service handling one request after another
SpecApi == InitApi /\ [][NextApi]_vars

(***************************************************************************)
(* C6, as stated: a document that cannot be parsed is answered with 400    *)
(* and a detail that wraps the parser's message; a failure raised by a     *)
(* pass over the parsed tree is answered with 500 and its own message.     *)
(***************************************************************************)
ErrorKindsDistinct ==
    (req.kind = "text" \/ (req.kind = "file" /\ resp.anonymizer_called)) =>
        /\ req.doc.raises = "parse" =>
            /\ resp.status = 400
            /\ EndsWith(resp.detail, ParserMessage)
        /\ req.doc.raises = "pass" =>
            /\ resp.status = 500
            /\ EndsWith(resp.detail, PassMessage)

(***************************************************************************)
(* C10, as stated: an upload whose name does not end in .xml is answered   *)
(* with 400 and the detail of the file-type check, the anonymizer unused.  *)
(***************************************************************************)
FileTypeRejected ==
    (req.kind = "file" /\ ~EndsWith(req.filename, DotXml)) =>
        /\ resp.status = 400
        /\ resp.detail = <<"File must be an XML file">>
        /\ ~resp.anonymizer_called

(***************************************************************************)
(* C7: in the folder batch no failure on a document ends the loop: while   *)
(* it runs no response is sent and every file handled so far is in exactly *)
(* one of the two lists; the summary is sent after the last file, with     *)
(* every file found in exactly one of `files` and `errors`, and            *)
(* processed + failed the number of files found.                           *)
(***************************************************************************)
CountOriginal(list, name) == Cardinality({k \in DOMAIN list : list[k].original = name})
CountFailed(list, name) == Cardinality({k \in DOMAIN list : list[k].file = name})

\* C7: no per-document failure ends the batch, and every file found is reported once
FolderIsolation ==
    /\ hpc = "loop" =>
        /\ resp = NoResponse
        /\ idx <= Len(xml_files)
        /\ Len(processed_files) + Len(failed_files) = idx
        /\ \A k \in 1..idx :
            CountOriginal(processed_files, Basename(xml_files[k]))
                + CountFailed(failed_files, Basename(xml_files[k])) = 1
    /\ (req.kind = "folder" /\ hpc = "idle" /\ xml_files # <<>>) =>
        /\ resp.status = 200
        /\ idx = Len(xml_files)
        /\ resp.body.processed + resp.body.failed = Len(xml_files)
        /\ resp.body.processed = Len(resp.body.files)
        /\ resp.body.failed = Len(resp.body.errors.list)
        /\ resp.body.errors.none = (resp.body.failed = 0)
        /\ \A k \in DOMAIN xml_files :
            CountOriginal(resp.body.files, Basename(xml_files[k]))
                + CountFailed(resp.body.errors.list, Basename(xml_files[k])) = 1

\* a batch of two files whose first failed and whose second was processed
FolderIsolationWitness ==
    /\ req.kind = "folder"
    /\ hpc = "idle"
    /\ Len(xml_files) = 2
    /\ resp.status = 200
    /\ Len(resp.body.files) = 1
    /\ resp.body.errors.list # <<>>
    /\ resp.body.errors.list[1].file = Basename(xml_files[1])
    /\ resp.body.files[1].original = Basename(xml_files[2])

====
